---- MODULE Spec2Model ----
(***************************************************************************)
(* TripCanvas (server/main.py): the trip search aggregation and refinement *)
(* engine.  search_travel resolves the destination, calls the flight,      *)
(* hotel and activity gateways one after the other, scores the offers and  *)
(* stores a SearchResponse under a fresh request id; refine_results        *)
(* filters a stored response; the plan_trip tool builds a day-by-day       *)
(* itinerary from the activity titles of a search.                         *)
(*                                                                         *)
(* Scheduling.  Both handlers are coroutines of one asyncio event loop.    *)
(* The gateways (get_location, search_flight_offers, get_hotels,           *)
(* get_activities) are "async def" but contain no await: the Amadeus SDK   *)
(* call inside them blocks.  A handler therefore runs from its first line  *)
(* to its return without yielding: while search_travel is inside a gateway *)
(* (pc # "idle") no other handler starts.  Only the wall clock moves.      *)
(*                                                                         *)
(* Optional values: Python's None is <<>> and a present value v is <<v>>.  *)
(***************************************************************************)
EXTENDS Integers, Sequences, FiniteSets, TLC

VARIABLES
    amadeus,        \* TRUE iff the module-level Amadeus client was constructed
    search_store,   \* the dict search_store: request id -> SearchResponse
    clock,          \* the wall clock read by utc_now_iso()
    pc,             \* where the running handler is: "idle" or the gateway it is inside
    task,           \* the locals of the running search_travel
    served,         \* how many records the upstream has returned so far
    issued,         \* the gateway operations invoked by the latest handler call
    ret,            \* what the latest handler call gave its caller
    last,           \* the latest handler call: which handler, and its arguments
    plan            \* the locals of plan_trip while it builds the itinerary

vars == <<amadeus, search_store, clock, pc, task, served, issued, ret, last, plan>>

(***************************************************************************)
(* Bounds of the model.                                                    *)
(***************************************************************************)
MaxRequests == 2    \* request ids uuid4 can hand out
MaxClock == 1       \* the clock runs 0..MaxClock
MaxOffers == 2      \* records the upstream returns in one run, over all its answers
MaxAmount == 2      \* prices and price ceilings are 0..MaxAmount
MaxTitles == 3      \* activities of the search response plan_trip reads
MaxDays == 4        \* plan_trip's days argument is 0..MaxDays

None == <<>>
Some(v) == <<v>>
IsSome(o) == o # <<>>
Val(o) == o[1]

Min(a, b) == IF a <= b THEN a ELSE b
Max(a, b) == IF a >= b THEN a ELSE b

\* Python's seq[:n]
Take(seq, n) == SubSeq(seq, 1, Min(n, Len(seq)))

SeqsUpTo(S, n) == UNION {[1..k -> S] : k \in 0..n}

(***************************************************************************)
(* Strings.  str.upper() and str.strip().lower() on the strings the model  *)
(* uses.                                                                   *)
(***************************************************************************)
Upper(s) ==
    CASE s = "eur" -> "EUR"
      [] s = "par" -> "PAR"
      [] OTHER -> s

StripLower(s) ==
    CASE s = "Paris" -> "paris"
      [] s = " PARIS " -> "paris"
      [] s = "Atlantis" -> "atlantis"
      [] s = "NYC" -> "nyc"
      [] s = "PAR" -> "par"
      [] s = "Destination" -> "destination"
      [] OTHER -> s

\* CITY_IATA_FALLBACKS
CITY_IATA_FALLBACKS ==
    [k \in {"tokyo", "new york", "london", "paris", "los angeles",
            "san francisco", "singapore", "dubai", "rome", "milan"} |->
        CASE k = "tokyo" -> "TYO"
          [] k = "new york" -> "NYC"
          [] k = "london" -> "LON"
          [] k = "paris" -> "PAR"
          [] k = "los angeles" -> "LAX"
          [] k = "san francisco" -> "SFO"
          [] k = "singapore" -> "SIN"
          [] k = "dubai" -> "DXB"
          [] k = "rome" -> "ROM"
          [] k = "milan" -> "MIL"]

\* the table looked up by the name as given, neither trimmed nor lower-cased
Mutant_fallback_iata_NoStrip(city_name) ==
    IF city_name = "" THEN None
    ELSE IF city_name \in DOMAIN CITY_IATA_FALLBACKS
         THEN Some(CITY_IATA_FALLBACKS[city_name])
         ELSE None

\* _fallback_iata_for_city: None for an empty name, else the table's entry
\* for the trimmed, lower-cased name
_fallback_iata_for_city(city_name) ==
    IF city_name = "" THEN None
    ELSE IF StripLower(city_name) \in DOMAIN CITY_IATA_FALLBACKS
         THEN Some(CITY_IATA_FALLBACKS[StripLower(city_name)])
         ELSE None

(***************************************************************************)
(* Dates.  A date string is a record: text "date" for a string that        *)
(* strptime(s, "%Y-%m-%d") parses, with the day it denotes (its proleptic  *)
(* Gregorian ordinal) and whether month and day are zero-padded ("2026-1-5"*)
(* parses as well as "2026-01-05"); text "bad" for any other string.       *)
(***************************************************************************)
\* datetime.date.max, 9999-12-31, as an ordinal: date + timedelta raises
\* OverflowError beyond it
DATE_MAX == 3652059

DateStr(day, padded) == [text |-> "date", day |-> day, padded |-> padded]
BadDate == [text |-> "bad", day |-> 0, padded |-> FALSE]

\* datetime.strptime(s, "%Y-%m-%d").date(); None stands for its ValueError
strptime(s) == IF s.text = "date" THEN Some(s.day) ELSE None

\* date.isoformat()
isoformat(day) == DateStr(day, TRUE)

\* the dates get_hotels has for hotel_offers_search.get: the ValueError of
\* an unparsable date, the OverflowError of check_in + timedelta(days=1)
\* past date.max, or checkInDate and checkOutDate
HotelDates(check_in_date, check_out_date) ==
    LET check_in == strptime(check_in_date)
        check_out == strptime(check_out_date)
    IN IF ~IsSome(check_in) \/ ~IsSome(check_out)
       THEN [kind |-> "ValueError"]
       ELSE IF Val(check_out) <= Val(check_in)
            THEN IF Val(check_in) + 1 > DATE_MAX
                 THEN [kind |-> "OverflowError"]
                 ELSE [kind |-> "ok", checkInDate |-> isoformat(Val(check_in)),
                       checkOutDate |-> isoformat(Val(check_in) + 1)]
            ELSE [kind |-> "ok", checkInDate |-> isoformat(Val(check_in)),
                  checkOutDate |-> isoformat(Val(check_out))]

(***************************************************************************)
(* What the upstream (the Amadeus SDK) can answer.                         *)
(***************************************************************************)
\* How a call of the SDK ends: with a response, with a ResponseError (the
\* SDK's own error type, network errors included), or with any other
\* exception raised inside the gateway or while search_travel maps the
\* gateway's records (a TypeError on a response without a data list, a
\* pydantic ValidationError on a currency code that is not 3 letters long).
Outcomes == {"ok", "ResponseError", "OtherError"}

\* get_hotels asks the upstream twice, for the hotels of the city and for
\* their offers: it also ends when the city has no hotel ids
HotelOutcomes == Outcomes \cup {"NoHotelIds"}

Amounts == 0..MaxAmount

\* Flight offers of the upstream: price.total, price.currency, the segments
\* of the first itinerary (carrier codes) and pricingOptions.refundableFare.
UpstreamFlights ==
    { [total |-> 1, currency |-> None, segments |-> <<"AF">>, refundableFare |-> Some(TRUE)],
      [total |-> MaxAmount, currency |-> Some("eur"), segments |-> <<>>, refundableFare |-> None],
      [total |-> MaxAmount, currency |-> None, segments |-> <<"BA", "AF">>, refundableFare |-> Some(FALSE)] }

\* Hotel offers of the upstream: hotel.name, hotel.rating, price.total and
\* the cancellation policy text of the best offer.
UpstreamHotels ==
    { [name |-> "Hotel One", rating |-> 0, total |-> 1, cancellation |-> None],
      [name |-> "Hotel Two", rating |-> 4, total |-> MaxAmount, cancellation |-> Some("Free cancellation")] }

\* Activities of the upstream: name, rating and price.amount.
UpstreamActivities ==
    { [name |-> "A", rating |-> 0, amount |-> 0],
      [name |-> "B", rating |-> 5, amount |-> MaxAmount] }

\* Locations of the upstream: the first record of the answer, or an empty
\* data list.  geo says whether the record carries latitude and longitude.
UpstreamLocations ==
    { <<>>,
      <<[name |-> "Paris", iataCode |-> Some("par"), geo |-> TRUE]>>,
      <<[name |-> "Paris", iataCode |-> None, geo |-> TRUE]>>,
      <<[name |-> "Paris", iataCode |-> Some("PAR"), geo |-> FALSE]>> }

(***************************************************************************)
(* The gateways: what each returns to search_travel for an answer of the   *)
(* upstream.  OtherError is not caught by them and is handled by the       *)
(* actions below.                                                          *)
(***************************************************************************)
FLIGHT_CAP == 3
HOTEL_CAP == 5
ACTIVITY_CAP == 8

\* get_location: None without a client, on a ResponseError and on an empty
\* answer; otherwise the fields of the first record
get_location(outcome, data) ==
    IF ~amadeus \/ outcome = "ResponseError" \/ data = <<>> THEN None
    ELSE Some([name |-> data[1].name, iataCode |-> data[1].iataCode,
               geo |-> data[1].geo])

\* FlightSegments as it would be without the "if not segments" block
Mutant_FlightSegments_NoSynthetic(offer, origin, destination) ==
    [i \in 1..Len(offer.segments) |->
        [from |-> origin, to |-> destination, carrier |-> offer.segments[i]]]

\* the segments of one upstream flight offer, or the one synthetic segment
FlightSegments(offer, origin, destination) ==
    IF offer.segments = <<>>
    THEN << [from |-> origin, to |-> destination, carrier |-> "Unknown"] >>
    ELSE [i \in 1..Len(offer.segments) |->
            [from |-> origin, to |-> destination, carrier |-> offer.segments[i]]]

\* search_flight_offers
search_flight_offers(outcome, data, origin, destination) ==
    IF ~amadeus \/ outcome = "ResponseError" THEN <<>>
    ELSE [i \in 1..Len(Take(data, FLIGHT_CAP)) |->
            [price_total |-> data[i].total,
             currency |-> IF IsSome(data[i].currency) THEN Upper(Val(data[i].currency)) ELSE "USD",
             segments |-> FlightSegments(data[i], origin, destination),
             refundable |-> data[i].refundableFare]]

\* get_hotels with _format_hotel_offers
get_hotels(outcome, data) ==
    IF ~amadeus \/ outcome = "ResponseError" \/ outcome = "NoHotelIds" THEN <<>>
    ELSE [i \in 1..Len(Take(data, HOTEL_CAP)) |->
            [name |-> data[i].name,
             total_amount |-> data[i].total,
             currency |-> "USD",
             rating |-> data[i].rating,
             cancellation |-> data[i].cancellation]]
\* get_activities as it would be over response.data, not response.data[:8]
Mutant_get_activities_NoCap(outcome, data) ==
    IF ~amadeus \/ outcome = "ResponseError" THEN <<>>
    ELSE [i \in 1..Len(data) |->
            [title |-> data[i].name,
             amount |-> data[i].amount,
             currency |-> "USD",
             rating |-> data[i].rating]]

\* get_activities
get_activities(outcome, data) ==
    IF ~amadeus \/ outcome = "ResponseError" THEN <<>>
    ELSE [i \in 1..Len(Take(data, ACTIVITY_CAP)) |->
            [title |-> data[i].name,
             amount |-> data[i].amount,
             currency |-> "USD",
             rating |-> data[i].rating]]

(***************************************************************************)
(* search_travel                                                           *)
(***************************************************************************)
RequestIds == 1..MaxRequests

\* TripRequest: destination.iata, destination.city, whether
\* destination.lat and destination.lng are both given, dates.start_date and
\* dates.end_date
Requests ==
    [iata : {None, Some("par")},
     city : {None, Some("Paris"), Some("Atlantis")},
     coords : BOOLEAN,
     start_date : {DateStr(1, TRUE)},
     end_date : {DateStr(2, TRUE)}]

\* the locals of search_travel; hotel_query holds the dates get_hotels gave
\* hotel_offers_search.get
NoTask ==
    [request_id |-> 0, destination_iata |-> None, destination_name |-> "",
     coords |-> FALSE, start_date |-> BadDate, end_date |-> BadDate,
     hotel_query |-> None, warnings |-> <<>>, flights |-> <<>>, hotels |-> <<>>]

\* what a handler gave its caller: a SearchResponse, or an exception
Returned(response) == [kind |-> "response", response |-> response]
Raised == [kind |-> "raised"]
\* the handler has not returned yet
Running == [kind |-> "running"]

\* utc_now_iso
utc_now_iso == clock

SearchResponse(request_id, flights, hotels, activities, warnings) ==
    [request_id |-> request_id, freshness_ts |-> utc_now_iso,
     flights |-> flights, hotels |-> hotels, activities |-> activities,
     warnings |-> warnings]
\* StorePut as it would be with one key for every response
Mutant_StorePut_OneKey(key, response) ==
    [k \in DOMAIN search_store \cup {1} |->
        IF k = 1 THEN response ELSE search_store[k]]

\* search_store[key] = response
StorePut(key, response) ==
    [k \in DOMAIN search_store \cup {key} |->
        IF k = key THEN response ELSE search_store[k]]

\* FlightOffers as it would be with the rank counted from 1
Mutant_FlightOffers_RankFromOne(request_id, flights_raw) ==
    [i \in 1..Len(flights_raw) |->
        [id |-> "flight_" \o ToString(request_id) \o "_" \o ToString(i - 1),
         total_price |-> [amount |-> flights_raw[i].price_total,
                          currency |-> flights_raw[i].currency],
         segments |-> flights_raw[i].segments,
         refundable |-> flights_raw[i].refundable,
         score |-> Max(1, 95 - i * 5)]]

\* the FlightOffer list built from flights_raw
FlightOffers(request_id, flights_raw) ==
    [i \in 1..Len(flights_raw) |->
        [id |-> "flight_" \o ToString(request_id) \o "_" \o ToString(i - 1),
         total_price |-> [amount |-> flights_raw[i].price_total,
                          currency |-> flights_raw[i].currency],
         segments |-> flights_raw[i].segments,
         refundable |-> flights_raw[i].refundable,
         score |-> Max(1, 95 - (i - 1) * 5)]]

\* HotelOffers as it would be without the "if hotel[\"rating\"] > 0" test: a
\* rating of 0 is kept and scored
Mutant_HotelOffers_ZeroRatingKept(request_id, hotels_raw) ==
    [i \in 1..Len(hotels_raw) |->
        [id |-> "hotel_" \o ToString(request_id) \o "_" \o ToString(i - 1),
         hotel_name |-> hotels_raw[i].name,
         star_rating |-> Some(hotels_raw[i].rating),
         total_price |-> [amount |-> hotels_raw[i].total_amount,
                          currency |-> hotels_raw[i].currency],
         refundable |-> Some(IsSome(hotels_raw[i].cancellation)),
         score |-> hotels_raw[i].rating * 20]]

\* the HotelOffer list built from hotels_raw
HotelOffers(request_id, hotels_raw) ==
    [i \in 1..Len(hotels_raw) |->
        [id |-> "hotel_" \o ToString(request_id) \o "_" \o ToString(i - 1),
         hotel_name |-> hotels_raw[i].name,
         star_rating |-> IF hotels_raw[i].rating > 0 THEN Some(hotels_raw[i].rating) ELSE None,
         total_price |-> [amount |-> hotels_raw[i].total_amount,
                          currency |-> hotels_raw[i].currency],
         refundable |-> Some(IsSome(hotels_raw[i].cancellation)),
         score |-> IF hotels_raw[i].rating > 0 THEN hotels_raw[i].rating * 20
                   ELSE Max(1, 88 - (i - 1) * 4)]]

\* the ActivityOffer list built from activities_raw
ActivityOffers(request_id, activities_raw) ==
    [i \in 1..Len(activities_raw) |->
        [id |-> "activity_" \o ToString(request_id) \o "_" \o ToString(i - 1),
         title |-> activities_raw[i].title,
         total_price |-> [amount |-> activities_raw[i].amount,
                          currency |-> activities_raw[i].currency],
         rating |-> IF activities_raw[i].rating > 0 THEN Some(activities_raw[i].rating) ELSE None,
         score |-> IF activities_raw[i].rating > 0 THEN activities_raw[i].rating * 20
                   ELSE Max(1, 86 - (i - 1) * 3)]]

NO_FLIGHTS == "No live flight offers were returned from Amadeus for this query."
NO_HOTELS == "No live hotel offers were returned from Amadeus for this query."
NO_ACTIVITIES == "No live activities were returned from Amadeus for this query."

ResolvedByFallback(destination_name, destination_iata) ==
    "Resolved destination '" \o destination_name \o "' using fallback IATA '"
        \o destination_iata \o "'."

CouldNotResolve(destination_name) ==
    "Could not resolve destination IATA for '" \o destination_name
        \o "'. Set destination.iata explicitly for better provider matches."

NoFilters ==
    [max_price |-> None, airline_whitelist |-> <<>>, hotel_stars_min |-> None,
     refundable_only |-> None, activity_categories |-> <<>>]

\* search_travel stores the response and returns it
StoreAndReturn(response) ==
    /\ search_store' = StorePut(response.request_id, response)
    /\ ret' = Returned(response)
    /\ pc' = "idle"
    /\ task' = NoTask

\* an exception leaves search_travel: nothing is stored
Raise ==
    /\ ret' = Raised
    /\ pc' = "idle"
    /\ task' = NoTask
    /\ UNCHANGED search_store

\* the answers of the upstream to one call: a response with data, or an
\* error; without a client the gateway returns before any call
Answers(Data) ==
    IF amadeus
    THEN ({"ok"} \X Data) \cup ((Outcomes \ {"ok"}) \X {<<>>})
    ELSE {<<"ok", <<>> >>}

\* search_travel up to its first gateway call
SearchBegin(request) ==
    /\ pc = "idle"
    /\ \E request_id \in RequestIds \ DOMAIN search_store :
        LET destination_iata ==
                IF IsSome(request.iata) THEN Some(Upper(Val(request.iata))) ELSE None
            destination_name ==
                IF IsSome(request.city) THEN Val(request.city)
                ELSE IF IsSome(destination_iata) THEN Val(destination_iata)
                ELSE "Destination"
        IN /\ task' = [NoTask EXCEPT !.request_id = request_id,
                                     !.destination_iata = destination_iata,
                                     !.destination_name = destination_name,
                                     !.coords = request.coords,
                                     !.start_date = request.start_date,
                                     !.end_date = request.end_date]
           /\ IF IsSome(destination_iata)
              THEN pc' = "flights" /\ issued' = {"flights"}
              ELSE pc' = "location" /\ issued' = {"location"}
           /\ last' = [op |-> "search", request_id |-> request_id, filters |-> NoFilters]
    /\ ret' = Running
    /\ UNCHANGED <<amadeus, search_store, clock, served>>

\* a call of search_travel by a client of the REST endpoint
SearchStart(request) ==
    /\ SearchBegin(request)
    /\ UNCHANGED plan

\* get_location(destination_name) returns: the destination is resolved by
\* the live lookup, by the table, or not at all
LocationReturn(outcome, data) ==
    /\ pc = "location"
    /\ <<outcome, data>> \in Answers(UpstreamLocations)
    /\ IF outcome = "OtherError"
       THEN Raise /\ UNCHANGED issued
       ELSE LET location == get_location(outcome, data)
                live == IsSome(location) /\ IsSome(Val(location).iataCode)
                destination_iata ==
                    IF live THEN Some(Upper(Val(Val(location).iataCode)))
                    ELSE _fallback_iata_for_city(task.destination_name)
                warnings ==
                    IF live THEN task.warnings
                    ELSE IF IsSome(destination_iata)
                    THEN Append(task.warnings,
                                ResolvedByFallback(task.destination_name, Val(destination_iata)))
                    ELSE Append(task.warnings, CouldNotResolve(task.destination_name))
            IN IF ~IsSome(destination_iata)
               THEN /\ StoreAndReturn(SearchResponse(task.request_id, <<>>, <<>>, <<>>, warnings))
                    /\ UNCHANGED issued
               ELSE /\ task' = [task EXCEPT !.destination_iata = destination_iata,
                                            !.warnings = warnings]
                    /\ pc' = "flights"
                    /\ issued' = issued \cup {"flights"}
                    /\ UNCHANGED <<search_store, ret>>
    /\ UNCHANGED <<plan, amadeus, clock, served, last>>

\* search_flight_offers returns, the upstream having answered with outcome
\* and data; the flights are scored; get_hotels is called
FlightsAnswered(outcome, data) ==
    /\ pc = "flights"
    /\ IF outcome = "OtherError"
       THEN Raise /\ UNCHANGED issued
       ELSE LET flights_raw ==
                    search_flight_offers(outcome, data, "LON", Val(task.destination_iata))
                flights == FlightOffers(task.request_id, flights_raw)
            IN /\ task' = [task EXCEPT !.flights = flights,
                                       !.warnings = IF flights = <<>>
                                                    THEN Append(@, NO_FLIGHTS) ELSE @]
               /\ pc' = "hotels"
               /\ issued' = issued \cup {"hotels"}
               /\ UNCHANGED <<search_store, ret>>
    /\ served' = served + Len(data)
    /\ UNCHANGED <<plan, amadeus, clock, last>>

FlightsReturn(outcome, data) ==
    /\ <<outcome, data>> \in Answers(SeqsUpTo(UpstreamFlights, MaxOffers - served))
    /\ FlightsAnswered(outcome, data)

\* get_hotels returns, the upstream having answered with outcome and data;
\* the hotels are scored; the coordinates are looked up unless the request
\* gave them, and get_activities is called with them
HotelsAnswered(outcome, data) ==
    /\ pc = "hotels"
    /\ LET dates == HotelDates(task.start_date, task.end_date)
           \* get_hotels reaches the upstream
           called == amadeus /\ dates.kind = "ok"
       IN /\ ~called => (outcome = "ok" /\ data = <<>>)
          /\ IF (amadeus /\ dates.kind = "OverflowError") \/ outcome = "OtherError"
             THEN Raise /\ UNCHANGED issued
             ELSE LET hotels == IF called
                                THEN HotelOffers(task.request_id, get_hotels(outcome, data))
                                ELSE <<>>
                  IN /\ task' = [task EXCEPT
                                    !.hotels = hotels,
                                    !.hotel_query =
                                        IF called /\ outcome = "ok"
                                        THEN Some([checkInDate |-> dates.checkInDate,
                                                   checkOutDate |-> dates.checkOutDate])
                                        ELSE None,
                                    !.warnings = IF hotels = <<>>
                                                 THEN Append(@, NO_HOTELS) ELSE @]
                     /\ IF task.coords
                        THEN pc' = "activities" /\ issued' = issued \cup {"activities"}
                        ELSE pc' = "coords" /\ issued' = issued \cup {"location"}
                     /\ UNCHANGED <<search_store, ret>>
    /\ served' = served + Len(data)
    /\ UNCHANGED <<plan, amadeus, clock, last>>

\* the answers of the upstream to get_hotels
HotelAnswers(Data) ==
    Answers(Data) \cup (IF amadeus THEN {<<"NoHotelIds", <<>> >>} ELSE {})

HotelsReturn(outcome, data) ==
    /\ <<outcome, data>> \in HotelAnswers(SeqsUpTo(UpstreamHotels, MaxOffers - served))
    /\ HotelsAnswered(outcome, data)

\* the end of search_travel: the activities are scored, the response is
\* built, stored and returned
Finish(activities_raw) ==
    LET activities == ActivityOffers(task.request_id, activities_raw)
        warnings == IF activities = <<>>
                    THEN Append(task.warnings, NO_ACTIVITIES) ELSE task.warnings
    IN StoreAndReturn(SearchResponse(task.request_id, task.flights, task.hotels,
                                     activities, warnings))

\* the second get_location(destination_name) returns: with coordinates
\* get_activities is called, without them there are no activities
CoordsReturn(outcome, data) ==
    /\ pc = "coords"
    /\ <<outcome, data>> \in Answers(UpstreamLocations)
    /\ IF outcome = "OtherError"
       THEN Raise /\ UNCHANGED issued
       ELSE LET location == get_location(outcome, data)
            IN IF IsSome(location) /\ Val(location).geo
               THEN /\ task' = [task EXCEPT !.coords = TRUE]
                    /\ pc' = "activities"
                    /\ issued' = issued \cup {"activities"}
                    /\ UNCHANGED <<search_store, ret>>
               ELSE Finish(<<>>) /\ UNCHANGED issued
    /\ UNCHANGED <<plan, amadeus, clock, served, last>>

\* get_activities returns, the upstream having answered with outcome and data
ActivitiesAnswered(outcome, data) ==
    /\ pc = "activities"
    /\ IF outcome = "OtherError"
       THEN Raise
       ELSE Finish(get_activities(outcome, data))
    /\ served' = served + Len(data)
    /\ UNCHANGED <<plan, amadeus, clock, issued, last>>

ActivitiesReturn(outcome, data) ==
    /\ <<outcome, data>> \in
          Answers(SeqsUpTo(UpstreamActivities, MaxOffers - served))
    /\ ActivitiesAnswered(outcome, data)

(***************************************************************************)
(* refine_results                                                          *)
(***************************************************************************)
\* the ids a caller can pass: the ids of searches, and one no search made
RefineIds == RequestIds \cup {0}

\* RefineFilters
AllFilters ==
    [max_price : {None} \cup {Some(a) : a \in Amounts},
     airline_whitelist : {<<>>, <<"AF">>},
     hotel_stars_min : {None, Some(3)},
     refundable_only : {None, Some(TRUE)},
     activity_categories : {<<>>, <<"tours">>}]

\* the fields besides max_price that a filter sets
OtherFilters(f) ==
    {k \in {"airline_whitelist", "hotel_stars_min", "refundable_only",
            "activity_categories"} : f[k] # <<>>}

\* the filters of the model: any price ceiling alone, and all the other
\* fields together, with a ceiling or without one
Filters ==
    {f \in AllFilters :
        \/ OtherFilters(f) = {}
        \/ Cardinality(OtherFilters(f)) = 4 /\ f.max_price \in {None, Some(1)}}

UNKNOWN_REQUEST_ID == "Unknown request_id. Run /v1/search_travel first."

\* the response for a request id that is not in the store
UnknownResponse(request_id) ==
    SearchResponse(request_id, <<>>, <<>>, <<>>, <<UNKNOWN_REQUEST_ID>>)

\* PriceFilter as it would be with < for <=
Mutant_PriceFilter_Strict(offers, max_price) ==
    IF IsSome(max_price)
    THEN SelectSeq(offers, LAMBDA o : o.total_price.amount < Val(max_price))
    ELSE offers

\* [o for o in offers if o.total_price.amount <= max_price], when max_price
\* is not None
PriceFilter(offers, max_price) ==
    IF IsSome(max_price)
    THEN SelectSeq(offers, LAMBDA o : o.total_price.amount <= Val(max_price))
    ELSE offers

\* RefinedResponse as it would be without warnings=existing.warnings: the
\* field's default, an empty list
Mutant_RefinedResponse_NoWarnings(existing, filters) ==
    SearchResponse(existing.request_id,
                   SelectSeq(existing.flights, LAMBDA o :
                       IsSome(filters.max_price) => o.total_price.amount <= Val(filters.max_price)),
                   SelectSeq(existing.hotels, LAMBDA o :
                       IsSome(filters.max_price) => o.total_price.amount <= Val(filters.max_price)),
                   SelectSeq(existing.activities, LAMBDA o :
                       IsSome(filters.max_price) => o.total_price.amount <= Val(filters.max_price)),
                   <<>>)

\* the response refine_results builds from the stored one
RefinedResponse(existing, filters) ==
    SearchResponse(existing.request_id,
                   PriceFilter(existing.flights, filters.max_price),
                   PriceFilter(existing.hotels, filters.max_price),
                   PriceFilter(existing.activities, filters.max_price),
                   existing.warnings)

\* the gateway operations refine_results invokes
RefineGatewayCalls == {}
\* refine_results as it would be if it stored the response it builds for
\* an unknown id
Mutant_RefineResults_StoresUnknown(request_id, filters) ==
    /\ pc = "idle"
    /\ LET refined == IF request_id \notin DOMAIN search_store
                      THEN UnknownResponse(request_id)
                      ELSE RefinedResponse(search_store[request_id], filters)
       IN /\ search_store' = StorePut(request_id, refined)
          /\ ret' = Returned(refined)
    /\ issued' = RefineGatewayCalls
    /\ last' = [op |-> "refine", request_id |-> request_id, filters |-> filters]
    /\ UNCHANGED <<plan, amadeus, clock, pc, task, served>>

\* refine_results as it would be without "search_store[request.request_id] =
\* refined": the filtered response is returned and the store keeps the old one
Mutant_RefineResults_NoWrite(request_id, filters) ==
    /\ pc = "idle"
    /\ IF request_id \notin DOMAIN search_store
       THEN ret' = Returned(UnknownResponse(request_id))
       ELSE ret' = Returned(RefinedResponse(search_store[request_id], filters))
    /\ issued' = RefineGatewayCalls
    /\ last' = [op |-> "refine", request_id |-> request_id, filters |-> filters]
    /\ UNCHANGED <<plan, amadeus, search_store, clock, pc, task, served>>

\* refine_results: one step of the event loop, it has no await
RefineResults(request_id, filters) ==
    /\ pc = "idle"
    /\ IF request_id \notin DOMAIN search_store
       THEN /\ ret' = Returned(UnknownResponse(request_id))
            /\ UNCHANGED search_store
       ELSE LET refined == RefinedResponse(search_store[request_id], filters)
            IN /\ search_store' = StorePut(request_id, refined)
               /\ ret' = Returned(refined)
    /\ issued' = RefineGatewayCalls
    /\ last' = [op |-> "refine", request_id |-> request_id, filters |-> filters]
    /\ UNCHANGED <<plan, amadeus, clock, pc, task, served>>

\* time passes
Tick ==
    /\ clock < MaxClock
    /\ clock' = clock + 1
    /\ UNCHANGED <<plan, amadeus, search_store, pc, task, served, issued, ret, last>>

\* the locals of plan_trip; text is the text of the content item it returns
NoPlan ==
    [pc |-> "none", destination_name |-> "", days |-> 0, request_id |-> 0,
     titles |-> <<>>, tool_warnings |-> <<>>, activity_pool |-> <<>>,
     cursor |-> 0, i |-> 0, itinerary |-> <<>>, text |-> ""]

Init ==
    /\ plan = NoPlan
    /\ amadeus \in BOOLEAN
    /\ search_store = << >>
    /\ clock = 0
    /\ pc = "idle"
    /\ task = NoTask
    /\ served = 0
    /\ issued = {}
    /\ ret = [kind |-> "none"]
    /\ last = [op |-> "none", request_id |-> 0, filters |-> NoFilters]

Next ==
    \/ \E request \in Requests : SearchStart(request)
    \/ \E outcome \in Outcomes, data \in UpstreamLocations : LocationReturn(outcome, data)
    \/ \E outcome \in Outcomes, data \in SeqsUpTo(UpstreamFlights, MaxOffers) :
          FlightsReturn(outcome, data)
    \/ \E outcome \in HotelOutcomes, data \in SeqsUpTo(UpstreamHotels, MaxOffers) :
          HotelsReturn(outcome, data)
    \/ \E outcome \in Outcomes, data \in UpstreamLocations : CoordsReturn(outcome, data)
    \/ \E outcome \in Outcomes, data \in SeqsUpTo(UpstreamActivities, MaxOffers) :
          ActivitiesReturn(outcome, data)
    \/ \E request_id \in RefineIds, filters \in Filters : RefineResults(request_id, filters)
    \/ Tick

Spec == Init /\ [][Next]_vars

(***************************************************************************)
(* One search_travel whose upstream answers run past the caps of the       *)
(* gateways, and the refinements of its response.                          *)
(***************************************************************************)
MaxBeyondCap == 1   \* records an answer can hold beyond the cap of its gateway

\* the records of S, listed in some order
Listing(S) ==
    CHOOSE f \in [1..Cardinality(S) -> S] :
        \A i, j \in 1..Cardinality(S) : i # j => f[i] # f[j]

\* the answers of up to n records that go round the records of S, starting
\* at any of them
LongAnswers(S, n) ==
    {[i \in 1..k |-> Listing(S)[((i + r) % Cardinality(S)) + 1]] :
        r \in 0..(Cardinality(S) - 1), k \in 0..n}

LongFlights == LongAnswers(UpstreamFlights, FLIGHT_CAP + MaxBeyondCap)
LongHotels == LongAnswers(UpstreamHotels, HOTEL_CAP + MaxBeyondCap)
LongActivities == LongAnswers(UpstreamActivities, ACTIVITY_CAP + MaxBeyondCap)

\* the dates of its request: unparsable, the first days, and the last day
LongDates == {BadDate, DateStr(1, TRUE), DateStr(2, FALSE), DateStr(3, TRUE),
              DateStr(DATE_MAX, TRUE)}

\* the requests of the search: destination PAR, with coordinates
LongRequests ==
    [iata : {Some("par")}, city : {Some("Paris")}, coords : {TRUE},
     start_date : LongDates, end_date : LongDates]

\* the filters of its refinements
LongFilters == {NoFilters, [NoFilters EXCEPT !.max_price = Some(1)]}

\* the one search_travel call
OneSearchStart(request) ==
    /\ last.op = "none"
    /\ SearchStart(request)

LongFlightsReturn(outcome, data) ==
    /\ <<outcome, data>> \in Answers(LongFlights)
    /\ FlightsAnswered(outcome, data)

LongHotelsReturn(outcome, data) ==
    /\ <<outcome, data>> \in HotelAnswers(LongHotels)
    /\ HotelsAnswered(outcome, data)

LongActivitiesReturn(outcome, data) ==
    /\ <<outcome, data>> \in Answers(LongActivities)
    /\ ActivitiesAnswered(outcome, data)

NextOffers ==
    \/ \E request \in LongRequests : OneSearchStart(request)
    \/ \E outcome \in Outcomes, data \in LongFlights : LongFlightsReturn(outcome, data)
    \/ \E outcome \in HotelOutcomes, data \in LongHotels : LongHotelsReturn(outcome, data)
    \/ \E outcome \in Outcomes, data \in LongActivities : LongActivitiesReturn(outcome, data)
    \/ \E request_id \in RefineIds, filters \in LongFilters : RefineResults(request_id, filters)

SpecOffers == Init /\ [][NextOffers]_vars

(***************************************************************************)
(* plan_trip: the itinerary built from the activities of the search        *)
(* response.                                                               *)
(***************************************************************************)
\* CITY_ACTIVITY_FALLBACKS
CITY_ACTIVITY_FALLBACKS ==
    [k \in {"tokyo", "paris", "london"} |->
        CASE k = "tokyo" ->
                << "Senso-ji Temple and Asakusa walk",
                   "Shibuya Crossing and Hachiko Square",
                   "Meiji Shrine and Yoyogi Park",
                   "Tsukiji Outer Market food tour",
                   "TeamLab Planets digital art museum",
                   "Tokyo Skytree sunset view" >>
          [] k = "paris" ->
                << "Louvre Museum highlights",
                   "Seine river walk and bookstalls",
                   "Montmartre and Sacre-Coeur",
                   "Eiffel Tower and Champ de Mars",
                   "Le Marais cafe and gallery hopping",
                   "Latin Quarter evening stroll" >>
          [] k = "london" ->
                << "Westminster and St James's Park walk",
                   "British Museum highlights",
                   "South Bank and Borough Market",
                   "Tower Bridge and Tower of London",
                   "Covent Garden and Soho food walk",
                   "Greenwich observatory and riverside" >>]

\* _fallback_activities_for_city as it would be with the name as given for
\* the key
Mutant_fallback_activities_CaseSensitive(city_name) ==
    IF city_name \in DOMAIN CITY_ACTIVITY_FALLBACKS
    THEN CITY_ACTIVITY_FALLBACKS[city_name]
    ELSE << "Old town walking tour in " \o city_name,
            "Local market and food tasting in " \o city_name,
            "Top viewpoints around " \o city_name,
            "Museum and cultural district visit in " \o city_name,
            "Neighborhood cafe hopping in " \o city_name,
            "Riverside or waterfront evening walk in " \o city_name >>

\* _fallback_activities_for_city: the curated list of the trimmed,
\* lower-cased name, or six generic strings that carry the name as given
_fallback_activities_for_city(city_name) ==
    IF StripLower(city_name) \in DOMAIN CITY_ACTIVITY_FALLBACKS
    THEN CITY_ACTIVITY_FALLBACKS[StripLower(city_name)]
    ELSE << "Old town walking tour in " \o city_name,
            "Local market and food tasting in " \o city_name,
            "Top viewpoints around " \o city_name,
            "Museum and cultural district visit in " \o city_name,
            "Neighborhood cafe hopping in " \o city_name,
            "Riverside or waterfront evening walk in " \o city_name >>

DINNER == "Dinner at a local restaurant"

\* the placeholder of a slot the pool cannot fill; slot is 0-based
Placeholder(destination_name, i, slot) ==
    "Self-guided exploration in " \o destination_name \o " (Day " \o ToString(i)
        \o ", stop " \o ToString(slot + 1) \o ")"

FallbackNotice(destination_name) ==
    "Live activities were unavailable, so curated fallback activities are shown for "
        \o destination_name \o "."

\* ActivityPool as it would be without the "not in activity_pool" test
Mutant_ActivityPool_NoDedupe(titles, activity_pool) == activity_pool \o titles

\* the loop that builds activity_pool: a title is appended unless it is in
\* the pool already
RECURSIVE ActivityPool(_, _)
ActivityPool(titles, activity_pool) ==
    IF titles = <<>> THEN activity_pool
    ELSE IF \E k \in 1..Len(activity_pool) : activity_pool[k] = Head(titles)
         THEN ActivityPool(Tail(titles), activity_pool)
         ELSE ActivityPool(Tail(titles), Append(activity_pool, Head(titles)))

SLOTS_PER_DAY == 2

\* DaySlots as it would be without the else branch: a slot the pool cannot
\* fill is left out
RECURSIVE Mutant_DaySlots_NoPlaceholder(_, _, _, _, _, _)
Mutant_DaySlots_NoPlaceholder(activity_pool, cursor, destination_name, i, slot, day_activities) ==
    IF slot >= 2
    THEN [cursor |-> cursor, day_activities |-> Append(day_activities, DINNER)]
    ELSE IF cursor < Len(activity_pool)
         THEN Mutant_DaySlots_NoPlaceholder(activity_pool, cursor + 1, destination_name, i,
                                            slot + 1,
                                            Append(day_activities, activity_pool[cursor + 1]))
         ELSE Mutant_DaySlots_NoPlaceholder(activity_pool, cursor, destination_name, i,
                                            slot + 1, day_activities)

\* DaySlots as it would be without "cursor += 1"
RECURSIVE Mutant_DaySlots_CursorStuck(_, _, _, _, _, _)
Mutant_DaySlots_CursorStuck(activity_pool, cursor, destination_name, i, slot, day_activities) ==
    IF slot >= 2
    THEN [cursor |-> cursor, day_activities |-> Append(day_activities, DINNER)]
    ELSE IF cursor < Len(activity_pool)
         THEN Mutant_DaySlots_CursorStuck(activity_pool, cursor, destination_name, i,
                                          slot + 1,
                                          Append(day_activities, activity_pool[cursor + 1]))
         ELSE Mutant_DaySlots_CursorStuck(activity_pool, cursor, destination_name, i,
                                          slot + 1,
                                          Append(day_activities,
                                                 Placeholder(destination_name, i, slot)))

\* the inner loop "for slot in range(2)" of day i, and the dinner appended
\* after it: the cursor after the day, and the day's activities
RECURSIVE DaySlots(_, _, _, _, _, _)
DaySlots(activity_pool, cursor, destination_name, i, slot, day_activities) ==
    IF slot >= SLOTS_PER_DAY
    THEN [cursor |-> cursor, day_activities |-> Append(day_activities, DINNER)]
    ELSE IF cursor < Len(activity_pool)
         THEN DaySlots(activity_pool, cursor + 1, destination_name, i, slot + 1,
                       Append(day_activities, activity_pool[cursor + 1]))
         ELSE DaySlots(activity_pool, cursor, destination_name, i, slot + 1,
                       Append(day_activities, Placeholder(destination_name, i, slot)))

Titles == {"A", "B"}

\* what plan_trip has when search_travel has returned: the destination
\* name, the days argument, and the titles and the warnings of the response
PlanInputs ==
    { p \in
        { [NoPlan EXCEPT !.pc = "searched", !.destination_name = d, !.days = n,
                         !.request_id = 1, !.titles = t, !.tool_warnings = w] :
            d \in {"Paris", "Atlantis"}, n \in 0..MaxDays,
            t \in SeqsUpTo(Titles, MaxTitles),
            w \in {<<>>, <<NO_FLIGHTS>>, <<NO_ACTIVITIES>>,
                   <<NO_FLIGHTS, NO_HOTELS, NO_ACTIVITIES>>,
                   <<CouldNotResolve("Atlantis")>>} } :
        \* a search_travel that fetches warns of missing activities iff it
        \* returns none; one that cannot resolve the destination returns none
        \* and warns of that alone
        IF p.tool_warnings = <<CouldNotResolve(p.destination_name)>>
        THEN p.titles = <<>> /\ p.destination_name = "Atlantis"
        ELSE (p.titles = <<>>) <=> (\E k \in 1..Len(p.tool_warnings) :
                                      p.tool_warnings[k] = NO_ACTIVITIES) }

\* the pool is built from the titles, or is the fallback list
PlanPool ==
    /\ plan.pc = "searched"
    /\ LET activity_pool == ActivityPool(plan.titles, <<>>)
       IN plan' =
            IF activity_pool = <<>>
            THEN [plan EXCEPT
                    !.pc = "loop", !.i = 1, !.cursor = 0,
                    !.activity_pool = _fallback_activities_for_city(plan.destination_name),
                    !.tool_warnings =
                        Append(SelectSeq(plan.tool_warnings, LAMBDA w : w # NO_ACTIVITIES),
                               FallbackNotice(plan.destination_name))]
            ELSE [plan EXCEPT !.pc = "loop", !.i = 1, !.cursor = 0,
                              !.activity_pool = activity_pool]
    /\ UNCHANGED <<amadeus, search_store, clock, pc, task, served, issued, ret, last>>

\* one round of "for i in range(1, days + 1)"
PlanDay ==
    /\ plan.pc = "loop"
    /\ plan.i <= plan.days
    /\ LET day == DaySlots(plan.activity_pool, plan.cursor, plan.destination_name,
                           plan.i, 0, <<>>)
       IN plan' = [plan EXCEPT
                    !.cursor = day.cursor,
                    !.itinerary = Append(@, [day |-> plan.i,
                                             activities |-> day.day_activities]),
                    !.i = @ + 1]
    /\ UNCHANGED <<amadeus, search_store, clock, pc, task, served, issued, ret, last>>

\* the loop is over: trip_data is returned
PlanReturn ==
    /\ plan.pc = "loop"
    /\ plan.i > plan.days
    /\ plan' = [plan EXCEPT
                  !.pc = "done",
                  !.text = "I've planned a " \o ToString(plan.days) \o "-day trip to "
                              \o plan.destination_name]
    /\ UNCHANGED <<amadeus, search_store, clock, pc, task, served, issued, ret, last>>

InitPlan ==
    /\ plan \in PlanInputs
    /\ amadeus = TRUE
    /\ search_store = << >>
    /\ clock = 0
    /\ pc = "idle"
    /\ task = NoTask
    /\ served = 0
    /\ issued = {}
    /\ ret = [kind |-> "none"]
    /\ last = [op |-> "none", request_id |-> 0, filters |-> NoFilters]

NextPlan ==
    \/ PlanPool
    \/ PlanDay
    \/ PlanReturn

SpecPlan == InitPlan /\ [][NextPlan]_vars

(***************************************************************************)
(* plan_trip from the call to the result: its own location lookup, the     *)
(* request it builds, the search it awaits and the itinerary loop above.   *)
(* plan.pc is "lookup" while its get_location is out, "search" while       *)
(* search_travel runs, and "raised" when an exception has left call_tool,  *)
(* which catches none.                                                     *)
(***************************************************************************)
\* the arguments of a call that gives a destination and a day count
PlanArguments == [destination : {"Paris", "NYC"}, days : 0..MaxDays]

\* default_departure_date: the day thirty days from now, taken as day 1
default_departure_date == DateStr(1, TRUE)

\* build_trip_request: no coordinates, end_date max(days, 1) - 1 days after
\* the departure date
build_trip_request(destination_city, destination_iata, departure_date, days) ==
    [iata |-> destination_iata,
     city |-> Some(destination_city),
     coords |-> FALSE,
     start_date |-> DateStr(Val(strptime(departure_date)), TRUE),
     end_date |-> DateStr(Val(strptime(departure_date)) + Max(days, 1) - 1, TRUE)]

\* call_tool("plan_trip", arguments) up to its get_location call
PlanTripStart(arguments) ==
    /\ plan.pc = "none"
    /\ pc = "idle"
    /\ plan' = [NoPlan EXCEPT !.pc = "lookup",
                              !.destination_name = arguments.destination,
                              !.days = arguments.days]
    /\ UNCHANGED <<amadeus, search_store, clock, pc, task, served, issued, ret, last>>

\* get_location answers plan_trip, which builds the request and enters
\* search_travel; an exception that get_location does not catch leaves the tool
PlanLocationReturn(outcome, data) ==
    /\ plan.pc = "lookup"
    /\ <<outcome, data>> \in Answers(UpstreamLocations)
    /\ IF outcome = "OtherError"
       THEN /\ plan' = [plan EXCEPT !.pc = "raised"]
            /\ UNCHANGED <<amadeus, search_store, clock, pc, task, served, issued,
                           ret, last>>
       ELSE LET location == get_location(outcome, data)
                destination_iata ==
                    IF IsSome(location) THEN Val(location).iataCode
                    ELSE _fallback_iata_for_city(plan.destination_name)
                destination_name ==
                    IF IsSome(location) /\ Val(location).name # ""
                    THEN Val(location).name
                    ELSE plan.destination_name
            IN /\ plan' = [plan EXCEPT !.pc = "search",
                                       !.destination_name = destination_name]
               /\ SearchBegin(build_trip_request(destination_name, destination_iata,
                                                 default_departure_date, plan.days))

\* search_travel has returned to plan_trip, or its exception passes through
PlanSearchReturn ==
    /\ plan.pc = "search"
    /\ pc = "idle"
    /\ plan' =
        IF ret = Raised THEN [plan EXCEPT !.pc = "raised"]
        ELSE [plan EXCEPT
                !.pc = "searched",
                !.request_id = ret.response.request_id,
                !.titles = [k \in 1..Len(ret.response.activities) |->
                               ret.response.activities[k].title],
                !.tool_warnings = ret.response.warnings]
    /\ UNCHANGED <<amadeus, search_store, clock, pc, task, served, issued, ret, last>>

NextTool ==
    \/ \E arguments \in PlanArguments : PlanTripStart(arguments)
    \/ \E outcome \in Outcomes, data \in UpstreamLocations :
          PlanLocationReturn(outcome, data)
    \/ \E outcome \in Outcomes, data \in UpstreamLocations : LocationReturn(outcome, data)
    \/ \E outcome \in Outcomes, data \in SeqsUpTo(UpstreamFlights, MaxOffers) :
          FlightsReturn(outcome, data)
    \/ \E outcome \in HotelOutcomes, data \in SeqsUpTo(UpstreamHotels, MaxOffers) :
          HotelsReturn(outcome, data)
    \/ \E outcome \in Outcomes, data \in UpstreamLocations : CoordsReturn(outcome, data)
    \/ \E outcome \in Outcomes, data \in SeqsUpTo(UpstreamActivities, MaxOffers) :
          ActivitiesReturn(outcome, data)
    \/ PlanSearchReturn
    \/ PlanPool
    \/ PlanDay
    \/ PlanReturn

SpecTool == Init /\ [][NextTool]_vars

(***************************************************************************)
(* Properties of refine_results.                                           *)
(*                                                                         *)
(* While last.op = "refine" the store is as that call left it, so          *)
(* last.request_id is in the store iff it was when the call was made.      *)
(***************************************************************************)
RefineReturned == last.op = "refine" /\ ret.kind = "response"
RefinedUnknown == RefineReturned /\ last.request_id \notin DOMAIN search_store
RefinedKnown == RefineReturned /\ last.request_id \in DOMAIN search_store

\* the step is the call refine_results(id, f): the call is read off last',
\* which every call of refine_results sets to its own arguments
RefineStep(id, f) ==
    /\ last'.op = "refine"
    /\ last'.request_id = id
    /\ last'.filters = f
    /\ RefineResults(id, f)

\* the step is a call of refine_results for an id in the store
RefineKnownStep ==
    /\ last'.op = "refine"
    /\ last'.request_id \in DOMAIN search_store
    /\ RefineResults(last'.request_id, last'.filters)

EmptyOffers(response) ==
    response.flights = <<>> /\ response.hotels = <<>> /\ response.activities = <<>>

\* C1: refine with a request id that is not in the store returns, without
\* raising, a response with empty flights, hotels and activities whose only
\* warning is "Unknown request_id. Run search first."
C1_UnknownIdWarning ==
    (last.op = "refine" /\ last.request_id \notin DOMAIN search_store) =>
        /\ ret.kind = "response"
        /\ EmptyOffers(ret.response)
        /\ ret.response.warnings = << "Unknown request_id. Run search first." >>

\* what refine_results returns for a request id that is not in the store: a
\* response for that id with empty flights, hotels and activities whose
\* only warning is "Unknown request_id. Run /v1/search_travel first."
UnknownIdResponseOfCode ==
    (last.op = "refine" /\ last.request_id \notin DOMAIN search_store) =>
        /\ ret.kind = "response"
        /\ ret.response.request_id = last.request_id
        /\ EmptyOffers(ret.response)
        /\ ret.response.warnings = << "Unknown request_id. Run /v1/search_travel first." >>

\* a refine of an unknown id has returned while the store holds another id
UnknownIdRefined == RefinedUnknown /\ search_store # << >>

\* the fields of a SearchResponse other than freshness_ts agree
SameButFreshness(a, b) ==
    /\ a.request_id = b.request_id
    /\ a.flights = b.flights
    /\ a.hotels = b.hotels
    /\ a.activities = b.activities
    /\ a.warnings = b.warnings

\* C2: refine(id, {}) of a stored id returns a response equal in every
\* field to the one stored before the call, and the store afterwards holds
\* an equal response.
C2_RefineIdempotent ==
    [][(RefineKnownStep /\ last'.filters = NoFilters) =>
          LET id == last'.request_id
          IN /\ ret' = Returned(search_store[id])
             /\ search_store'[id] = search_store[id]]_vars

\* what refine(id, {}) of a stored id does: it returns a response equal to
\* the one stored before the call in request_id, flights, hotels,
\* activities and warnings; its freshness_ts is the time of the refine
\* call, not the stored one; the store afterwards holds the returned
\* response.
RefineKeepsAllButFreshness ==
    [][(RefineKnownStep /\ last'.filters = NoFilters) =>
          LET id == last'.request_id
          IN /\ ret'.kind = "response"
             /\ SameButFreshness(ret'.response, search_store[id])
             /\ ret'.response.freshness_ts = clock
             /\ ret'.response.freshness_ts >= search_store[id].freshness_ts
             /\ search_store'[id] = ret'.response]_vars

\* refine(id, {}) has returned a response with offers and warnings, at a
\* later time than the search that stored it
RefinedWithNoFilters ==
    /\ RefinedKnown
    /\ last.filters = NoFilters
    /\ ret.response.flights # <<>>
    /\ ret.response.warnings # <<>>
    /\ ret.response.freshness_ts > 0

\* a is b with some elements left out, the others in b's order
IsSubList(a, b) ==
    \E m \in [1..Len(a) -> 1..Len(b)] :
        /\ \A i, j \in 1..Len(a) : i < j => m[i] < m[j]
        /\ \A i \in 1..Len(a) : a[i] = b[m[i]]

\* returned is stored cut down to the offers that cost at most P
CutAtPrice(returned, stored, P) ==
    /\ IsSubList(returned, stored)
    /\ \A i \in 1..Len(returned) : returned[i].total_price.amount <= P
    /\ \A k \in 1..Len(stored) :
          stored[k].total_price.amount <= P =>
              \E i \in 1..Len(returned) : returned[i] = stored[k]

PriceOnly(P) == [NoFilters EXCEPT !.max_price = Some(P)]

\* C3: for every stored id and every ceiling P, each list returned by
\* refine(id, {max_price: P}) is a sub-list, in the same order, of the list
\* stored before the call, every returned offer costs at most P and every
\* stored offer that costs at most P is returned.
C3_RefineMonotone ==
    [][\A P \in Amounts :
          (RefineKnownStep /\ last'.filters = PriceOnly(P)) =>
              LET id == last'.request_id
              IN /\ ret'.kind = "response"
                 /\ CutAtPrice(ret'.response.flights, search_store[id].flights, P)
                 /\ CutAtPrice(ret'.response.hotels, search_store[id].hotels, P)
                 /\ CutAtPrice(ret'.response.activities, search_store[id].activities, P)]_vars

\* refine(id, {max_price: 1}) has returned the second flight of the search
\* alone: the first one cost more and was dropped
C3_Witness ==
    /\ RefinedKnown
    /\ last.filters = PriceOnly(1)
    /\ Len(ret.response.flights) = 1
    /\ ret.response.flights[1].id = "flight_" \o ToString(last.request_id) \o "_1"
    /\ ret.response.flights[1].total_price.amount = 1

InList(x, list) == \E k \in 1..Len(list) : list[k] = x

\* C4, as claimed: every filter refine is given is applied, together with
\* the price ceiling: with a non-empty airline_whitelist no returned flight
\* has a carrier outside it, with hotel_stars_min no returned hotel has a
\* star rating below it, with refundable_only no returned offer is
\* non-refundable.  (An ActivityOffer has no category, so the part about
\* activity_categories is not stated.)
C4_AllFiltersApplied ==
    [][RefineKnownStep =>
              LET r == ret'.response
                  f == last'.filters
              IN /\ f.airline_whitelist # <<>> =>
                        \A i \in 1..Len(r.flights) :
                            \A k \in 1..Len(r.flights[i].segments) :
                                InList(r.flights[i].segments[k].carrier, f.airline_whitelist)
                 /\ IsSome(f.hotel_stars_min) =>
                        \A i \in 1..Len(r.hotels) :
                            IsSome(r.hotels[i].star_rating) =>
                                Val(r.hotels[i].star_rating) >= Val(f.hotel_stars_min)
                 /\ f.refundable_only = Some(TRUE) =>
                        /\ \A i \in 1..Len(r.flights) : r.flights[i].refundable # Some(FALSE)
                        /\ \A i \in 1..Len(r.hotels) : r.hotels[i].refundable # Some(FALSE)
                 /\ IsSome(f.max_price) =>
                        /\ \A i \in 1..Len(r.flights) :
                                r.flights[i].total_price.amount <= Val(f.max_price)
                        /\ \A i \in 1..Len(r.hotels) :
                                r.hotels[i].total_price.amount <= Val(f.max_price)
                        /\ \A i \in 1..Len(r.activities) :
                                r.activities[i].total_price.amount <= Val(f.max_price)]_vars

\* C5: no refine call, with any filters and any request id, invokes a
\* gateway operation or draws a record from the upstream, and for a known
\* id the warnings of the returned response and of the response stored
\* afterwards are the warnings stored before the call.
C5_RefineNoFetchNoWarningChange ==
    [][RefineStep(last'.request_id, last'.filters) =>
          LET id == last'.request_id
          IN /\ issued' = {}
             /\ served' = served
             /\ id \in DOMAIN search_store =>
                   /\ ret'.kind = "response"
                   /\ ret'.response.warnings = search_store[id].warnings
                   /\ search_store'[id].warnings = search_store[id].warnings]_vars

\* a refine with a price ceiling has returned a stored response that
\* carries warnings
C5_Witness ==
    /\ RefinedKnown
    /\ IsSome(last.filters.max_price)
    /\ ret.response.warnings # <<>>
    /\ search_store[last.request_id].warnings = ret.response.warnings
    /\ issued = {}

(***************************************************************************)
(* Properties of search_travel.                                            *)
(***************************************************************************)
Fetches == {"flights", "hotels", "activities"}

\* the live lookup yields no destination code: there is no client, the
\* upstream reports an error, or its answer is empty or has no iataCode
NoLiveCode(outcome, data) ==
    \/ ~amadeus
    \/ outcome = "ResponseError"
    \/ data = <<>>
    \/ data # <<>> /\ data[1].iataCode = None

\* what the step must be when search comes out of the lookup with the
\* destination unresolved: no fetch, the empty response with the one warning
\* that names the destination, returned and stored
ShortCircuits ==
    /\ pc' = "idle"
    /\ issued' \cap Fetches = {}
    /\ ret'.kind = "response"
    /\ ret'.response.request_id = task.request_id
    /\ EmptyOffers(ret'.response)
    /\ ret'.response.warnings =
          << "Could not resolve destination IATA for '"
               \o task.destination_name
               \o "'. Set destination.iata explicitly for better provider matches." >>
    /\ task.request_id \in DOMAIN search_store'
    /\ search_store'[task.request_id] = ret'.response

\* C6: when search is given no destination code and the destination name is
\* resolved neither by the live lookup (it yields no code, or fails in any
\* way) nor by the static table, search invokes no flight, hotel or
\* activity fetch, returns a response with empty flights, hotels and
\* activities and exactly one warning, which names the destination, and
\* stores that response under its request id.
C6_UnresolvedDestination ==
    [][\A outcome \in Outcomes, data \in UpstreamLocations :
          ( /\ pc = "location"
            /\ (NoLiveCode(outcome, data) \/ outcome = "OtherError")
            /\ StripLower(task.destination_name) \notin DOMAIN CITY_IATA_FALLBACKS
            /\ LocationReturn(outcome, data) ) => ShortCircuits]_vars

\* the same when the lookup returns: whenever get_location comes back with
\* no code, search short-circuits as stated
UnresolvedWhenLookupReturns ==
    [][\A outcome \in Outcomes \ {"OtherError"}, data \in UpstreamLocations :
          ( /\ pc = "location"
            /\ NoLiveCode(outcome, data)
            /\ StripLower(task.destination_name) \notin DOMAIN CITY_IATA_FALLBACKS
            /\ LocationReturn(outcome, data) ) => ShortCircuits]_vars

\* a search for "Atlantis", which the live lookup was asked for, has
\* returned and stored the empty response with its one warning
UnresolvedStored ==
    /\ amadeus
    /\ pc = "idle"
    /\ last.op = "search"
    /\ ret.kind = "response"
    /\ EmptyOffers(ret.response)
    /\ ret.response.warnings =
          << "Could not resolve destination IATA for 'Atlantis'. Set destination.iata explicitly for better provider matches." >>
    /\ issued = {"location"}
    /\ search_store[last.request_id] = ret.response

\* C7, as claimed: whatever the location, flight, hotel and activity calls
\* do (answer, report an error, or raise any other error), search never
\* raises to its caller: once it is over it has returned a SearchResponse
\* and stored it under its request id.
C7_SearchNeverRaises ==
    (last.op = "search" /\ pc = "idle") =>
        /\ ret.kind = "response"
        /\ last.request_id \in DOMAIN search_store
        /\ search_store[last.request_id] = ret.response

\* C8, as claimed: once the destination code is known the three fetches are
\* issued together: while search is inside one of them, the flight and the
\* hotel fetch have both been issued, and so has the activity fetch when
\* the request gives the coordinates it needs.
C8_FetchesIssuedTogether ==
    pc \in Fetches =>
        /\ {"flights", "hotels"} \subseteq issued
        /\ task.coords => "activities" \in issued

(***************************************************************************)
(* Properties of the itinerary of plan_trip, under SpecPlan.               *)
(***************************************************************************)
\* C9: for every day count N >= 1 and every pool, the itinerary has N
\* entries numbered 1..N in order, and each day holds 2 activity slots
\* followed by "Dinner at a local restaurant": 2*N slots that are not the
\* dinner.
C9_ItineraryShape ==
    (plan.pc = "done" /\ plan.days >= 1) =>
        /\ Len(plan.itinerary) = plan.days
        /\ \A k \in 1..Len(plan.itinerary) :
              /\ plan.itinerary[k].day = k
              /\ Len(plan.itinerary[k].activities) = 3
              /\ plan.itinerary[k].activities[3] = "Dinner at a local restaurant"

\* an itinerary of two days or more is built from a pool too short to fill
\* its slots
C9_Witness ==
    /\ plan.pc = "done"
    /\ plan.days >= 2
    /\ Len(plan.activity_pool) < 2 * plan.days
    /\ Len(plan.itinerary) = plan.days

C10_Scenario == plan.pc = "done" /\ plan.titles = <<"A", "A", "B">> /\ plan.days = 2

\* C10, as claimed: with the titles A, A, B and 2 days the pool is A, B,
\* day 1 is A, B and the dinner, and day 2 is one placeholder and the dinner.
C10_ScenarioAsClaimed ==
    C10_Scenario =>
        /\ plan.activity_pool = <<"A", "B">>
        /\ plan.itinerary[1].activities = <<"A", "B", "Dinner at a local restaurant">>
        /\ Len(plan.itinerary[2].activities) = 2
        /\ plan.itinerary[2].activities[1] \notin {"A", "B", "Dinner at a local restaurant"}
        /\ plan.itinerary[2].activities[2] = "Dinner at a local restaurant"

\* C10, amended: with the titles A, A, B and 2 days the pool is A, B, day 1
\* is A, B and the dinner, and day 2 is two placeholders, "Self-guided
\* exploration in <destination> (Day 2, stop 1)" and "(Day 2, stop 2)", and
\* the dinner.
C10_ScenarioItinerary ==
    C10_Scenario =>
        /\ plan.activity_pool = <<"A", "B">>
        /\ Len(plan.itinerary) = 2
        /\ plan.itinerary[1] =
              [day |-> 1, activities |-> <<"A", "B", "Dinner at a local restaurant">>]
        /\ plan.itinerary[2] =
              [day |-> 2,
               activities |->
                  << "Self-guided exploration in " \o plan.destination_name \o " (Day 2, stop 1)",
                     "Self-guided exploration in " \o plan.destination_name \o " (Day 2, stop 2)",
                     "Dinner at a local restaurant" >>]

\* the scenario has run for the destination "Paris"
C10_Witness ==
    /\ C10_Scenario
    /\ plan.destination_name = "Paris"
    /\ plan.itinerary[2].activities[1] = "Self-guided exploration in Paris (Day 2, stop 1)"

(***************************************************************************)
(* Properties of the offers of a search, under SpecOffers.                 *)
(***************************************************************************)
SearchReturned == last.op = "search" /\ ret.kind = "response"

\* C11: every flight offer of a search response has the score
\* max(1, 95 - 5*i), i its 0-based position in the order the flight provider
\* returned: the offers search_travel keeps from an answer are its records
\* in order, the one at position i scored max(1, 95 - 5*i); three flights
\* score 95, 90, 85 and no score is below 1.
C11_FlightScores ==
    /\ [][\A outcome \in {"ok", "ResponseError"}, data \in LongFlights :
            (pc = "flights" /\ LongFlightsReturn(outcome, data)) =>
                /\ Len(task'.flights) <= Len(data)
                /\ \A k \in 1..Len(task'.flights) :
                      /\ task'.flights[k].total_price.amount = data[k].total
                      /\ task'.flights[k].refundable = data[k].refundableFare
                      /\ task'.flights[k].score = Max(1, 95 - 5 * (k - 1))]_vars
    /\ [](SearchReturned =>
            /\ \A k \in 1..Len(ret.response.flights) :
                  /\ ret.response.flights[k].score = Max(1, 95 - 5 * (k - 1))
                  /\ ret.response.flights[k].score >= 1
            /\ Len(ret.response.flights) = 3 =>
                  /\ ret.response.flights[1].score = 95
                  /\ ret.response.flights[2].score = 90
                  /\ ret.response.flights[3].score = 85)

\* a search has returned three flights, scored 95, 90 and 85, with hotels
\* and activities
C11_Witness ==
    /\ SearchReturned
    /\ Len(ret.response.flights) = 3
    /\ ret.response.flights[1].score = 95
    /\ ret.response.flights[3].score = 85
    /\ ret.response.flights[1].total_price.amount # ret.response.flights[2].total_price.amount
    /\ ret.response.hotels # <<>>

\* the rating an offer stores for the provider's rating: none for 0
StoredRating(rating) == IF rating = 0 THEN None ELSE Some(rating)

\* the score of the offer at 0-based position i with the stored rating r,
\* where an unrated offer at position 0 scores top and one position down
\* costs step
RatedScore(r, i, top, step) == IF IsSome(r) THEN Val(r) * 20 ELSE Max(1, top - step * i)

\* C12: for the hotels and the activities of a search response, a provider
\* rating of 0 is stored as absent; the score is rating*20 when a rating is
\* present and otherwise max(1, 88 - 4*i) for a hotel and max(1, 86 - 3*i)
\* for an activity, i the offer's 0-based position among all the offers of
\* its type in provider order, the rated ones counted.
C12_RatedScores ==
    /\ [][\A outcome \in {"ok", "ResponseError"}, data \in LongHotels :
            (pc = "hotels" /\ LongHotelsReturn(outcome, data)) =>
                /\ Len(task'.hotels) <= Len(data)
                /\ \A k \in 1..Len(task'.hotels) :
                      /\ task'.hotels[k].hotel_name = data[k].name
                      /\ task'.hotels[k].star_rating = StoredRating(data[k].rating)
                      /\ task'.hotels[k].score =
                            RatedScore(StoredRating(data[k].rating), k - 1, 88, 4)]_vars
    /\ [][\A outcome \in {"ok", "ResponseError"}, data \in LongActivities :
            (pc = "activities" /\ LongActivitiesReturn(outcome, data)) =>
                /\ ret'.kind = "response"
                /\ Len(ret'.response.activities) <= Len(data)
                /\ \A k \in 1..Len(ret'.response.activities) :
                      /\ ret'.response.activities[k].title = data[k].name
                      /\ ret'.response.activities[k].rating = StoredRating(data[k].rating)
                      /\ ret'.response.activities[k].score =
                            RatedScore(StoredRating(data[k].rating), k - 1, 86, 3)]_vars
    /\ [](SearchReturned =>
            /\ \A k \in 1..Len(ret.response.hotels) :
                  /\ ret.response.hotels[k].star_rating # Some(0)
                  /\ ret.response.hotels[k].score =
                        RatedScore(ret.response.hotels[k].star_rating, k - 1, 88, 4)
            /\ \A k \in 1..Len(ret.response.activities) :
                  /\ ret.response.activities[k].rating # Some(0)
                  /\ ret.response.activities[k].score =
                        RatedScore(ret.response.activities[k].rating, k - 1, 86, 3))

\* a search has returned an unrated hotel at position 2 behind rated ones,
\* scored 80, and an unrated activity at position 1 behind a rated one,
\* scored 83
C12_Witness ==
    /\ SearchReturned
    /\ Len(ret.response.hotels) >= 3
    /\ ret.response.hotels[2].star_rating = Some(4)
    /\ ret.response.hotels[2].score = 80
    /\ ret.response.hotels[3].star_rating = None
    /\ ret.response.hotels[3].score = 80
    /\ Len(ret.response.activities) >= 2
    /\ ret.response.activities[1].rating = Some(5)
    /\ ret.response.activities[1].score = 100
    /\ ret.response.activities[2].rating = None
    /\ ret.response.activities[2].score = 83

(***************************************************************************)
(* Properties of get_hotels, under SpecOffers.                             *)
(***************************************************************************)
\* both dates of the running search parse
ParseableDates == IsSome(strptime(task.start_date)) /\ IsSome(strptime(task.end_date))

\* the check-out the provider must be given for the dates of the search
RepairedCheckOut ==
    IF Val(strptime(task.end_date)) <= Val(strptime(task.start_date))
    THEN Val(strptime(task.start_date)) + 1
    ELSE Val(strptime(task.end_date))

\* the step is get_hotels returning what the upstream answered to its query
\* and gives the upstream the check-in of the request and the repaired
\* check-out, without an error
PassesRepairedDates(data) ==
    LongHotelsReturn("ok", data) =>
        /\ ret'.kind # "raised"
        /\ pc' # "idle"
        /\ IsSome(task'.hotel_query)
        /\ strptime(Val(task'.hotel_query).checkInDate) = strptime(task.start_date)
        /\ strptime(Val(task'.hotel_query).checkOutDate) = Some(RepairedCheckOut)

\* C13: for every pair of parseable dates with check-out not after check-in
\* (check-in = check-out included) the hotel search passes the provider the
\* original check-in and a check-out of check-in plus one day, without
\* reporting an error; with check-out after check-in both dates are passed
\* unchanged.
C13_HotelDateRepair ==
    [][\A data \in LongHotels :
          (pc = "hotels" /\ amadeus /\ ParseableDates) => PassesRepairedDates(data)]_vars

\* the same for every check-in before date.max
HotelDateRepairBeforeDateMax ==
    [][\A data \in LongHotels :
          (pc = "hotels" /\ amadeus /\ ParseableDates
             /\ Val(strptime(task.start_date)) < DATE_MAX) => PassesRepairedDates(data)]_vars

\* get_hotels has asked for the offers of one night for a request whose
\* check-out is before its check-in
HotelDatesRepaired ==
    /\ pc = "activities"
    /\ ParseableDates
    /\ Val(strptime(task.end_date)) < Val(strptime(task.start_date))
    /\ task.hotel_query =
          Some([checkInDate |-> task.start_date, checkOutDate |-> DateStr(4, TRUE)])
    /\ task.hotels # <<>>


(***************************************************************************)
(* C14.  plan_trip, called with a destination and a day count, always      *)
(* returns a result with a text content item and structured trip data      *)
(* (an itinerary with one entry per day, a request_id, warnings),          *)
(* whatever the providers return.                                          *)
(***************************************************************************)
PlanTripReturned == plan.pc = "done"

TripDataShape ==
    /\ plan.text # ""
    /\ Len(plan.itinerary) = plan.days
    /\ \A k \in 1..Len(plan.itinerary) : plan.itinerary[k].day = k
    /\ plan.request_id \in RequestIds
    /\ plan.request_id \in DOMAIN search_store

\* C14 as stated: no call of plan_trip ends in an exception, and a result
\* has the shape above.  Violated: a provider error that is not a
\* ResponseError leaves get_location or search_travel and then call_tool.
C14_PlanTripAlwaysReturns ==
    /\ plan.pc # "raised"
    /\ PlanTripReturned => TripDataShape

\* what the code does guarantee: a result, when there is one, has the shape
PlanTripResultShape == PlanTripReturned => TripDataShape

\* the case of test_mcp.py: no client, "NYC" in neither lookup nor table
PlanTripNycWithoutClient ==
    /\ ~amadeus
    /\ PlanTripReturned
    /\ plan.destination_name = "NYC"
    /\ plan.days = 2
    /\ Len(plan.itinerary) = 2
    /\ plan.tool_warnings = <<CouldNotResolve("NYC"), FallbackNotice("NYC")>>


(***************************************************************************)
(* C15.  Destination resolution in search follows a fixed preference       *)
(* order: a code of the live lookup's first result is used and the static  *)
(* table is not consulted; the table is looked up, by the trimmed,         *)
(* lower-cased destination name, only when the live lookup yields no code; *)
(* the destination is reported unresolved only when both yield nothing.    *)
(***************************************************************************)
\* the live lookup succeeds with a code
LiveCode(outcome, data) ==
    amadeus /\ outcome = "ok" /\ data # <<>> /\ IsSome(data[1].iataCode)

\* the live lookup fails, is unavailable or returns nothing
LiveFailed(outcome, data) == ~amadeus \/ outcome = "ResponseError" \/ data = <<>>

InTable(name) == StripLower(name) \in DOMAIN CITY_IATA_FALLBACKS

\* the step resolves by the first result's code, upper-cased, and leaves no
\* trace of the table
UsesLiveCode(data) ==
    /\ pc' = "flights"
    /\ task'.destination_iata = Some(Upper(Val(data[1].iataCode)))
    /\ task'.warnings = task.warnings

\* the step resolves by the table's entry for the trimmed, lower-cased name
UsesTable ==
    /\ pc' = "flights"
    /\ InTable(task.destination_name)
    /\ task'.destination_iata =
          Some(CITY_IATA_FALLBACKS[StripLower(task.destination_name)])
    /\ task'.warnings =
          Append(task.warnings,
                 ResolvedByFallback(task.destination_name,
                                    CITY_IATA_FALLBACKS[StripLower(task.destination_name)]))

\* the step reports the destination as unresolved
ReportsUnresolved ==
    /\ ret'.kind = "response"
    /\ ret'.response.warnings = <<CouldNotResolve(task.destination_name)>>

\* C15 as stated: the table is looked up only when the lookup fails, is
\* unavailable or returns nothing.  Violated: a first result without a code
\* sends search to the table as well.
C15_ResolutionOrderAsClaimed ==
    [][\A outcome \in Outcomes, data \in UpstreamLocations :
          (pc = "location" /\ LocationReturn(outcome, data)) =>
              /\ LiveCode(outcome, data) => UsesLiveCode(data)
              /\ UsesTable => LiveFailed(outcome, data)
              /\ ReportsUnresolved =>
                    LiveFailed(outcome, data) /\ ~InTable(task.destination_name)]_vars

\* C15, amended: the table is looked up exactly when the lookup returns
\* without a code (no client, a ResponseError, an empty answer, or a first
\* result that has no code), and the destination is reported unresolved
\* exactly when, in addition, the table has no entry for the name.
C15_ResolutionOrder ==
    [][\A outcome \in Outcomes \ {"OtherError"}, data \in UpstreamLocations :
          (pc = "location" /\ LocationReturn(outcome, data)) =>
              /\ LiveCode(outcome, data) => UsesLiveCode(data)
              /\ UsesTable <=>
                    NoLiveCode(outcome, data) /\ InTable(task.destination_name)
              /\ ReportsUnresolved <=>
                    NoLiveCode(outcome, data) /\ ~InTable(task.destination_name)]_vars

\* search went on to the fetches with the table's code for "Paris" although
\* a client is configured
C15_Witness ==
    /\ amadeus
    /\ pc = "flights"
    /\ task.destination_name = "Paris"
    /\ task.destination_iata = Some("PAR")
    /\ task.warnings = <<ResolvedByFallback("Paris", "PAR")>>


(***************************************************************************)
(* C16.  Two concurrent refine calls on the same request id never          *)
(* interleave the read of the stored response with the other's write: the  *)
(* outcome is that of running them one after the other, so the response    *)
(* finally stored satisfies the filters of both calls and no refinement    *)
(* is lost.  refine_results has no await, so each call is one step; the    *)
(* second of two calls on an id is a refine step taken when the last       *)
(* operation was a refine of the same id.                                  *)
(***************************************************************************)
SatisfiesCeiling(r, f) ==
    IsSome(f.max_price) =>
        /\ \A i \in 1..Len(r.flights) : r.flights[i].total_price.amount <= Val(f.max_price)
        /\ \A i \in 1..Len(r.hotels) : r.hotels[i].total_price.amount <= Val(f.max_price)
        /\ \A i \in 1..Len(r.activities) :
                r.activities[i].total_price.amount <= Val(f.max_price)

SatisfiesFilters(r, f) ==
    /\ SatisfiesCeiling(r, f)
    /\ f.airline_whitelist # <<>> =>
          \A i \in 1..Len(r.flights) :
              \A k \in 1..Len(r.flights[i].segments) :
                  InList(r.flights[i].segments[k].carrier, f.airline_whitelist)
    /\ IsSome(f.hotel_stars_min) =>
          \A i \in 1..Len(r.hotels) :
              IsSome(r.hotels[i].star_rating) =>
                  Val(r.hotels[i].star_rating) >= Val(f.hotel_stars_min)
    /\ f.refundable_only = Some(TRUE) =>
          /\ \A i \in 1..Len(r.flights) : r.flights[i].refundable # Some(FALSE)
          /\ \A i \in 1..Len(r.hotels) : r.hotels[i].refundable # Some(FALSE)

\* the second of two refine calls on one known request id
SecondRefineStep ==
    /\ RefineKnownStep
    /\ last.op = "refine"
    /\ last.request_id = last'.request_id

\* C16 as stated: after the second call the stored response satisfies the
\* filters of both calls.  Violated: refine_results applies max_price only,
\* so a filter of another kind is lost whichever the order of the calls.
C16_ConcurrentRefines ==
    [][SecondRefineStep =>
          LET stored == search_store'[last'.request_id]
          IN /\ SatisfiesFilters(stored, last.filters)
             /\ SatisfiesFilters(stored, last'.filters)]_vars

\* what the code does guarantee: the second call reads what the first one
\* wrote, so the price ceilings of both calls hold of the stored response
RefinesSerialized ==
    [][SecondRefineStep =>
          LET stored == search_store'[last'.request_id]
          IN /\ stored = RefinedResponse(search_store[last.request_id], last'.filters)
             /\ SatisfiesCeiling(search_store[last.request_id], last.filters)
             /\ SatisfiesCeiling(stored, last.filters)
             /\ SatisfiesCeiling(stored, last'.filters)]_vars


(***************************************************************************)
(* C17.  In plan_trip the fallback activity pool is used if and only if    *)
(* the deduplicated pool of live activity titles is empty; the pool is     *)
(* then the curated list of the destination name matched                   *)
(* case-insensitively, or 6 generic strings that carry the destination     *)
(* name when there is no curated list, and the returned warnings contain   *)
(* the fallback notice; when live titles exist no fallback activity and no *)
(* fallback notice appears.                                                *)
(***************************************************************************)
PoolBuilt == plan.pc \in {"loop", "done"}

\* the curated list for Paris and the generic list for Atlantis, as the
\* source spells them
ParisCurated ==
    << "Louvre Museum highlights", "Seine river walk and bookstalls",
       "Montmartre and Sacre-Coeur", "Eiffel Tower and Champ de Mars",
       "Le Marais cafe and gallery hopping", "Latin Quarter evening stroll" >>

AtlantisGeneric ==
    << "Old town walking tour in Atlantis",
       "Local market and food tasting in Atlantis",
       "Top viewpoints around Atlantis",
       "Museum and cultural district visit in Atlantis",
       "Neighborhood cafe hopping in Atlantis",
       "Riverside or waterfront evening walk in Atlantis" >>

FallbackStrings ==
    {ParisCurated[k] : k \in 1..6} \cup {AtlantisGeneric[k] : k \in 1..6}

C17_FallbackPool ==
    PoolBuilt =>
        IF plan.titles = <<>>
        THEN /\ Len(plan.activity_pool) = 6
             /\ plan.destination_name = "Paris" => plan.activity_pool = ParisCurated
             /\ plan.destination_name = "Atlantis" => plan.activity_pool = AtlantisGeneric
             /\ InList(FallbackNotice(plan.destination_name), plan.tool_warnings)
        ELSE /\ plan.activity_pool # <<>>
             /\ \A k \in 1..Len(plan.activity_pool) :
                    /\ InList(plan.activity_pool[k], plan.titles)
                    /\ plan.activity_pool[k] \notin FallbackStrings
             /\ \A d \in 1..Len(plan.itinerary) :
                    \A k \in 1..Len(plan.itinerary[d].activities) :
                        plan.itinerary[d].activities[k] \notin FallbackStrings
             /\ ~InList(FallbackNotice(plan.destination_name), plan.tool_warnings)

\* a plan for "Paris" without live titles has returned the curated list in
\* its first day, and the notice
C17_Witness ==
    /\ plan.pc = "done"
    /\ plan.titles = <<>>
    /\ plan.destination_name = "Paris"
    /\ plan.days >= 1
    /\ plan.itinerary[1].activities =
          <<"Louvre Museum highlights", "Seine river walk and bookstalls", DINNER>>
    /\ InList(FallbackNotice("Paris"), plan.tool_warnings)


(***************************************************************************)
(* C18.  The itinerary loop consumes the pool with one forward cursor:     *)
(* reading the non-dinner slots of days 1..N in order, the pool titles     *)
(* that appear are exactly the first min(|pool|, 2N) titles of the         *)
(* deduplicated pool in pool order, each used at most once; once a         *)
(* placeholder appears no pool title appears in any later slot; and        *)
(* placeholders are pairwise distinct, each carrying its day number and    *)
(* slot index.                                                             *)
(***************************************************************************)
\* the j-th non-dinner slot of the itinerary built so far, j from 1
SlotDay(j) == ((j - 1) \div 2) + 1
SlotIndex(j) == (j - 1) % 2
SlotAt(j) == plan.itinerary[SlotDay(j)].activities[SlotIndex(j) + 1]
SlotCount == 2 * Len(plan.itinerary)

InPool(x) == InList(x, plan.activity_pool)

C18_ForwardCursor ==
    PoolBuilt =>
        LET used == Min(Len(plan.activity_pool), SlotCount)
        IN /\ \A a, b \in 1..Len(plan.activity_pool) :
                  a # b => plan.activity_pool[a] # plan.activity_pool[b]
           /\ \A j \in 1..used : SlotAt(j) = plan.activity_pool[j]
           /\ \A j \in (used + 1)..SlotCount :
                  /\ ~InPool(SlotAt(j))
                  /\ SlotAt(j) = "Self-guided exploration in " \o plan.destination_name
                                    \o " (Day " \o ToString(SlotDay(j)) \o ", stop "
                                    \o ToString(SlotIndex(j) + 1) \o ")"
           /\ \A j, k \in 1..SlotCount : j # k => SlotAt(j) # SlotAt(k)
           /\ \A j, k \in 1..SlotCount :
                  (j < k /\ ~InPool(SlotAt(j))) => ~InPool(SlotAt(k))

\* a plan of four days over the six fallback titles: the pool runs out
\* after day 3 and day 4 holds two placeholders
C18_Witness ==
    /\ plan.pc = "done"
    /\ plan.days = 4
    /\ Len(plan.activity_pool) = 6
    /\ SlotAt(6) = plan.activity_pool[6]
    /\ ~InPool(SlotAt(7))
    /\ ~InPool(SlotAt(8))

\* a plan whose single live title is followed by a placeholder within day 1
SingleTitlePlanned ==
    /\ plan.pc = "done"
    /\ plan.days = 2
    /\ plan.activity_pool = <<"A">>
    /\ SlotAt(1) = "A"
    /\ ~InPool(SlotAt(2))


(***************************************************************************)
(* C19.  Every flight offer in every SearchResponse held in the store or   *)
(* returned by search or refine has at least one segment: when the         *)
(* provider's record has no itinerary or an itinerary with no legs,        *)
(* exactly one synthetic segment from the requested origin to the          *)
(* requested destination with carrier "Unknown" is supplied instead.       *)
(***************************************************************************)
HasSegments(response) ==
    \A k \in 1..Len(response.flights) : Len(response.flights[k].segments) >= 1

C19_FlightSegments ==
    /\ [][\A outcome \in {"ok", "ResponseError"}, data \in LongFlights :
            (pc = "flights" /\ LongFlightsReturn(outcome, data)) =>
                \A k \in 1..Len(task'.flights) :
                    IF data[k].segments = <<>>
                    THEN task'.flights[k].segments =
                            << [from |-> "LON", to |-> Val(task.destination_iata),
                                carrier |-> "Unknown"] >>
                    ELSE /\ Len(task'.flights[k].segments) = Len(data[k].segments)
                         /\ \A n \in 1..Len(data[k].segments) :
                               task'.flights[k].segments[n].carrier = data[k].segments[n]]_vars
    /\ [](/\ ret.kind = "response" => HasSegments(ret.response)
          /\ \A id \in DOMAIN search_store : HasSegments(search_store[id]))

\* a refine has returned, and left in the store, a flight made from a
\* record without legs: its one segment is the synthetic one
C19_Witness ==
    /\ RefinedKnown
    /\ \E k \in 1..Len(ret.response.flights) :
          ret.response.flights[k].segments =
              << [from |-> "LON", to |-> "PAR", carrier |-> "Unknown"] >>
    /\ search_store[last.request_id] = ret.response


(***************************************************************************)
(* C20.  Every SearchResponse returned by search or refine, and every      *)
(* response in the store, holds at most 3 flights, at most 5 hotels and at *)
(* most 8 activities, and after search these are the first records of      *)
(* each provider's result in provider order.                               *)
(***************************************************************************)
WithinCaps(response) ==
    /\ Len(response.flights) <= 3
    /\ Len(response.hotels) <= 5
    /\ Len(response.activities) <= 8

C20_Caps ==
    /\ [](/\ ret.kind = "response" => WithinCaps(ret.response)
          /\ \A id \in DOMAIN search_store : WithinCaps(search_store[id]))
    /\ [][\A data \in LongFlights :
            (pc = "flights" /\ LongFlightsReturn("ok", data)) =>
                /\ Len(task'.flights) = Min(Len(data), 3)
                /\ \A k \in 1..Len(task'.flights) :
                      /\ task'.flights[k].total_price.amount = data[k].total
                      /\ task'.flights[k].refundable = data[k].refundableFare]_vars
    /\ [][\A data \in LongHotels :
            (pc = "hotels" /\ task'.hotel_query # None /\ LongHotelsReturn("ok", data)) =>
                /\ task'.flights = task.flights
                /\ Len(task'.hotels) = Min(Len(data), 5)
                /\ \A k \in 1..Len(task'.hotels) :
                      /\ task'.hotels[k].hotel_name = data[k].name
                      /\ task'.hotels[k].total_price.amount = data[k].total]_vars
    /\ [][\A data \in LongActivities :
            (pc = "activities" /\ LongActivitiesReturn("ok", data)) =>
                /\ ret'.kind = "response"
                /\ ret'.response.flights = task.flights
                /\ ret'.response.hotels = task.hotels
                /\ Len(ret'.response.activities) = Min(Len(data), 8)
                /\ \A k \in 1..Len(ret'.response.activities) :
                      /\ ret'.response.activities[k].title = data[k].name
                      /\ ret'.response.activities[k].total_price.amount = data[k].amount
                /\ search_store'[task.request_id] = ret'.response]_vars

\* a search whose three providers each answered with one record more than
\* the cap has returned 3 flights, 5 hotels and 8 activities
C20_Witness ==
    /\ SearchReturned
    /\ served = (3 + MaxBeyondCap) + (5 + MaxBeyondCap) + (8 + MaxBeyondCap)
    /\ Len(ret.response.flights) = 3
    /\ Len(ret.response.hotels) = 5
    /\ Len(ret.response.activities) = 8
    /\ search_store[last.request_id] = ret.response


(***************************************************************************)
(* C21.  In every reachable state of the session store each key maps to a  *)
(* response whose request_id equals that key, and any two search calls     *)
(* store under distinct request ids, so a search never overwrites the      *)
(* entry written by another search.                                        *)
(***************************************************************************)
\* the step in which a search stores and returns its response
SearchStoresStep ==
    /\ ret = Running
    /\ last'.op = "search"
    /\ ret'.kind = "response"

C21_StoreKeys ==
    /\ [](\A key \in DOMAIN search_store : search_store[key].request_id = key)
    /\ [][SearchStoresStep =>
            LET id == ret'.response.request_id
            IN /\ id \notin DOMAIN search_store
               /\ DOMAIN search_store' = DOMAIN search_store \cup {id}
               /\ search_store'[id] = ret'.response
               /\ \A key \in DOMAIN search_store :
                     search_store'[key] = search_store[key]]_vars

\* two searches have stored under two ids; the entry of the first, which
\* holds offers, is still there after the second has returned
C21_Witness ==
    /\ SearchReturned
    /\ DOMAIN search_store = {1, 2}
    /\ last.request_id = 2
    /\ search_store[1].request_id = 1
    /\ search_store[1].flights # <<>>
    /\ search_store[2].request_id = 2


(***************************************************************************)
(* C22.  Refinement is cumulative: refine overwrites the stored response   *)
(* with its filtered result, so over any sequence of refine calls on one   *)
(* request id the stored flights, hotels and activities never grow, and an *)
(* offer removed by refine(id, {max_price: P1}) is not returned by any     *)
(* later refine on that id, neither one with a higher ceiling nor one with *)
(* no filters.                                                             *)
(***************************************************************************)
ShrinksTo(after, before) ==
    /\ IsSubList(after.flights, before.flights)
    /\ IsSubList(after.hotels, before.hotels)
    /\ IsSubList(after.activities, before.activities)

\* every step leaves each stored list a sub-list of what it was; a refine of
\* a known id returns what it stores; and the refine that follows a refine
\* of the same id returns no offer above the earlier ceiling, whatever its
\* own filters are
C22_RefineCumulative ==
    /\ [][\A id \in DOMAIN search_store :
            /\ id \in DOMAIN search_store'
            /\ \/ search_store'[id] = search_store[id]
               \/ ShrinksTo(search_store'[id], search_store[id])]_vars
    /\ [][RefineKnownStep =>
            /\ ret'.response = search_store'[last'.request_id]
            /\ ShrinksTo(ret'.response, search_store[last'.request_id])]_vars
    /\ [][SecondRefineStep => SatisfiesCeiling(ret'.response, last.filters)]_vars

\* a refine with no filters has returned the second flight of the search
\* alone: the first one, which an earlier refine removed, has not come back
C22_Witness ==
    /\ RefinedKnown
    /\ last.filters = NoFilters
    /\ last.request_id = 1
    /\ Len(ret.response.flights) = 1
    /\ ret.response.flights[1].id = "flight_1_1"
    /\ search_store[1] = ret.response


(***************************************************************************)
(* C23.  refine with an unknown request id leaves the session store        *)
(* unchanged: no entry is created for that id and no existing entry is     *)
(* modified, so a second refine with the same unknown id again reports it  *)
(* as unknown; the store's key set changes only through search.            *)
(***************************************************************************)
\* the step is a call of refine_results for an id that is not in the store
RefineUnknownStep ==
    /\ last'.op = "refine"
    /\ last'.request_id \notin DOMAIN search_store
    /\ RefineResults(last'.request_id, last'.filters)

\* the response reports its id as unknown: no offers, one warning
ReportsUnknown(response, id) ==
    /\ response.request_id = id
    /\ EmptyOffers(response)
    /\ Len(response.warnings) = 1

C23_UnknownIdFrame ==
    /\ [][RefineUnknownStep =>
            /\ search_store' = search_store
            /\ ret'.kind = "response"
            /\ ReportsUnknown(ret'.response, last'.request_id)]_vars
    /\ [][(/\ RefinedUnknown
           /\ last'.op = "refine"
           /\ last'.request_id = last.request_id
           /\ RefineResults(last'.request_id, last'.filters)) =>
            /\ last'.request_id \notin DOMAIN search_store'
            /\ ReportsUnknown(ret'.response, last.request_id)]_vars
    /\ [][DOMAIN search_store' # DOMAIN search_store => SearchStoresStep]_vars

\* a refine of id 2 has been answered as unknown while the store holds the
\* offers of search 1 and nothing under 2
C23_Witness ==
    /\ RefinedUnknown
    /\ last.request_id = 2
    /\ DOMAIN search_store = {1}
    /\ search_store[1].flights # <<>>
    /\ ReportsUnknown(ret.response, 2)

====
